---- MODULE Spec2Model ----
(***************************************************************************)
(* State-machine model of the Freescale KPSDK ADC peripheral driver        *)
(* (fsl_adc_driver.c) and, further down, of the NV register map header.    *)
(*                                                                         *)
(* Execution is modelled as one stack of frames `stk`.  The application    *)
(* calls one driver function at a time; a function may call another        *)
(* (adc_auto_calibration calls adc_init, ...); the ADC interrupt pushes a  *)
(* frame of adc_isr_internal on top of whatever is running, which is how   *)
(* it preempts the application between any two statements.  The `pc` of a  *)
(* frame is the line number, in fsl_adc_driver.c, of the statement the     *)
(* frame executes next.                                                    *)
(***************************************************************************)
EXTENDS Integers, Sequences, FiniteSets, TLC

VARIABLES
    gate,       \* gate[i]: clock gate of ADC instance i (clock manager)
    nvic,       \* nvic[i]: interrupt of instance i enabled in the NVIC
    adc,        \* adc[i]: the registers of ADC instance i
    ctx,        \* adc_context_internal[i]
    stk,        \* the stack of frames; its last element is executing
    param,      \* the application's adc_calibration_param_t
    appRet,     \* what the application's last finished call returned
    calls,      \* number of calls the application has made
    lastGateOp, \* history: last finished adc_init / adc_shutdown per instance
    lastReg,    \* history: argument of the last adc_register_user_callback_isr
    stopped,    \* history: stopped[i][g], adc_stop_conversion succeeded on g
    lastStore,  \* history: who last stored ctx[i].value ("isr", "poll") and
                \* what (val); what the interrupt last stored (isr)
    nv,         \* nv[a]: the byte at address a of the flash configuration field
    rd          \* the last read of the NV registers: what was read, and how

\* the state of the ADC driver, and that of the NV register reads
adcVars == <<gate, nvic, adc, ctx, stk, param, appRet, calls,
             lastGateOp, lastReg, stopped, lastStore>>
nvVars == <<nv, rd>>

vars == <<adcVars, nvVars>>

---------------------------------------------------------------------------
(* Bounds of the model *)

MaxCalls == 3
MaxArgCalls == 2
MaxPollCalls == 4
MaxIsrCalls == 3
MaxCalCalls == 3
MaxLiveCalls == 3
MaxIsoCalls == 2
MaxSeed == 255
MaxVal == 2

(* Program constants *)

HW_ADC_INSTANCE_COUNT == 2
HW_ADC_SC1n_COUNT == 2

Inst == 0 .. (HW_ADC_INSTANCE_COUNT - 1)
Mux == 0 .. (HW_ADC_SC1n_COUNT - 1)
Values == 1 .. MaxVal
CalVals == 1 .. MaxVal

kStatus_ADC_Success == "kStatus_ADC_Success"
kStatus_ADC_InvalidArgument == "kStatus_ADC_InvalidArgument"
kStatus_ADC_Failed == "kStatus_ADC_Failed"

NoCallback == "NULL"
Callbacks == {"cbRead", "cbNop"}

---------------------------------------------------------------------------
(* Arguments the application passes *)

NullArg == [isNull |-> TRUE]
NoArg == [isNull |-> FALSE]

UserCfg ==
    [isNull |-> FALSE,
     clockSourceMode |-> "kAdcClockSourceAlternate",
     clockSourceDividerMode |-> "kAdcClockDivider2",
     resolutionMode |-> "kAdcSingleDiff12",
     referenceVoltageMode |-> "kAdcVoltageValt",
     isContinuousEnabled |-> TRUE]

\* lines 158-165 with the application's configuration in their place
CalibrationCfg_User == UserCfg
CalibrationCfg ==
    [isNull |-> FALSE,
     clockSourceMode |-> "kAdcClockSourceBusClk2",
     clockSourceDividerMode |-> "kAdcClockDivider8",
     resolutionMode |-> "kAdcSingleDiff16",
     referenceVoltageMode |-> "kAdcVoltageVref",
     isContinuousEnabled |-> FALSE]

\* a configuration of single conversions
SingleCfg == [UserCfg EXCEPT !.isContinuousEnabled = FALSE]

ExtendCfg(on) ==
    [isNull |-> FALSE,
     isHighSpeedEnabled |-> on,
     isLongSampleEnabled |-> on,
     hwLongSampleMode |-> "kAdcLongSampleExtra16",
     isLowPowerEnabled |-> on,
     isAsynClockEnabled |-> on,
     isHwTriggerEnabled |-> FALSE,
     isHwAverageEnabled |-> on,
     hwAverageSampleMode |-> "kAdcHwAverageCount8",
     isHwCompareEnabled |-> on,
     hwCompareValue1 |-> 1,
     hwCompareValue2 |-> 2,
     isHwCompareGreaterEnabled |-> on,
     isHwCompareRangeEnabled |-> on,
     isDmaEnabled |-> on]

ChannelCfg(mux, intr) ==
    [isNull |-> FALSE,
     channelId |-> 1,
     muxSelect |-> mux,
     isDifferentialEnabled |-> TRUE,
     isInterruptEnabled |-> intr]

ParamArg == [isNull |-> FALSE]

---------------------------------------------------------------------------
(* The ADC registers and the HAL that accesses them.  ADCH of SC1n all     *)
(* ones (Disabled) is "module disabled".  A write to SC1n clears COCO of   *)
(* group n and starts a conversion when ADCH selects a channel; a read of  *)
(* Rn clears COCO of group n.                                              *)

Disabled == 31

AdcReset ==
    [clockSourceMode |-> "reset", clockDividerMode |-> "reset",
     referenceVoltageMode |-> "reset", resolutionMode |-> "reset",
     continuous |-> FALSE,
     highSpeed |-> FALSE, longSampleMode |-> "reset", longSample |-> FALSE,
     lowPower |-> FALSE, asyncClock |-> FALSE, hwTrigger |-> FALSE,
     hwAverageMode |-> "reset", hwAverage |-> FALSE,
     cv1 |-> 0, cv2 |-> 0, cmpGreater |-> FALSE, cmpRange |-> FALSE,
     hwCompare |-> FALSE, dma |-> FALSE,
     cal |-> FALSE, calf |-> FALSE, calPG |-> 0, calMG |-> 0,
     PG |-> 0, MG |-> 0,
     muxSel |-> 0,
     ch |-> [g \in Mux |-> Disabled],
     diff |-> [g \in Mux |-> FALSE],
     aien |-> [g \in Mux |-> FALSE],
     coco |-> [g \in Mux |-> FALSE],
     busy |-> [g \in Mux |-> FALSE],
     R |-> [g \in Mux |-> 0]]

adc_hal_disable(r, g) ==
    [r EXCEPT !.ch[g] = Disabled, !.coco[g] = FALSE, !.busy[g] = FALSE]

adc_hal_enable(r, g, channel, isDiff) ==
    [r EXCEPT !.ch[g] = channel, !.diff[g] = isDiff,
              !.coco[g] = FALSE, !.busy[g] = TRUE]

adc_hal_configure_interrupt(r, g, en) ==
    [r EXCEPT !.aien[g] = en, !.coco[g] = FALSE,
              !.busy[g] = (r.ch[g] # Disabled)]

adc_hal_set_group_mux(r, g) == [r EXCEPT !.muxSel = g]

adc_hal_is_conversion_completed(r, g) == r.coco[g]

\* the value read, and the registers after the read
adc_hal_get_conversion_value(r, g) == r.R[g]
AfterResultRead(r, g) == [r EXCEPT !.coco[g] = FALSE]

adc_hal_configure_hw_average(r, en) == [r EXCEPT !.hwAverage = en]
adc_hal_set_hw_average_mode(r, m) == [r EXCEPT !.hwAverageMode = m]

\* the registers after a calibration run that succeeded with results pg, mg
CalibrationDone(r, pg, mg) ==
    [r EXCEPT !.cal = TRUE, !.calf = FALSE, !.calPG = pg, !.calMG = mg,
              !.coco[0] = TRUE]
\* the registers after a calibration run that failed
CalibrationFailed(r) == [r EXCEPT !.cal = TRUE, !.calf = TRUE]
adc_hal_end_calibration(r) == [r EXCEPT !.cal = FALSE]
adc_hal_get_calibration_PG(r) == r.calPG
adc_hal_get_calibration_MG(r) == r.calMG

\* the interrupt request line of an instance
IrqPending(i) == \E g \in Mux : adc[i].aien[g] /\ adc[i].coco[g]

---------------------------------------------------------------------------
(* Frames *)

Frame(f, pc, i, a) ==
    [f |-> f, pc |-> pc, inst |-> i, arg |-> a, rv |-> "none",
     log |-> <<>>, tmp |-> 0]

Running == stk # <<>>
Top == stk[Len(stk)]
Is(f) == Running /\ Top.f = f
At(f, pc) == Running /\ Top.f = f /\ Top.pc = pc
InIsr == \E k \in 1 .. Len(stk) : stk[k].f = "adc_isr_internal"

\* the top frame goes to line pc
Goto(pc) == stk' = [stk EXCEPT ![Len(stk)].pc = pc]
\* the top frame makes the HAL (or clock / interrupt manager) call h and
\* goes to line pc
Hal(h, pc) ==
    stk' = [stk EXCEPT ![Len(stk)].pc = pc,
                       ![Len(stk)].log = Append(@, h)]
\* the top frame calls f(i, a) and will continue at line pc
Invoke(f, first, i, a, pc) ==
    stk' = Append([stk EXCEPT ![Len(stk)].pc = pc], Frame(f, first, i, a))
\* the top frame returns v to its caller, or to the application
Return(v) ==
    IF Len(stk) > 1
    THEN /\ stk' = [SubSeq(stk, 1, Len(stk) - 1) EXCEPT ![Len(stk) - 1].rv = v]
         /\ UNCHANGED appRet
    ELSE /\ stk' = <<>>
         /\ appRet' = [f |-> Top.f, inst |-> Top.inst, arg |-> Top.arg, val |-> v]
\* the top frame returns nothing
ReturnVoid ==
    /\ stk' = SubSeq(stk, 1, Len(stk) - 1)
    /\ UNCHANGED appRet

Hist == <<lastGateOp, lastReg, stopped, lastStore>>

---------------------------------------------------------------------------
(* The statements of the driver that the properties below single out *)

\* lines 200-203 (and 234-237, 305-308, 344-347, 134-137): the check of the
\* pointer argument; the top frame returns or goes on to line next
NullCheck_Success(ptr, next) ==
    IF ptr.isNull
    THEN Return(kStatus_ADC_Success)
    ELSE Goto(next) /\ UNCHANGED appRet
NullCheck(ptr, next) ==
    IF ptr.isNull
    THEN Return(kStatus_ADC_InvalidArgument)
    ELSE Goto(next) /\ UNCHANGED appRet

\* line 206: the clock gate after adc_init has set it
InitGate_Off(g, i) == [g EXCEPT ![i] = FALSE]
InitGate_All(g, i) == [j \in DOMAIN g |-> TRUE]
InitGate(g, i) == [g EXCEPT ![i] = TRUE]

\* line 109: where adc_get_calibration_param goes on a calibration status
AfterStartCalibration_Ignored(status) ==
    IF status = kStatus_ADC_Failed THEN 114 ELSE 114
AfterStartCalibration(status) ==
    IF status = kStatus_ADC_Failed THEN 111 ELSE 114

\* line 310: the registers after adc_start_conversion's first statement
StartDisable_Skipped(r, cfg) == r
StartDisable(r, cfg) == adc_hal_disable(r, cfg.muxSelect)

\* line 318: the context after an interrupt-mode adc_start_conversion
StartContext_Reset(c, cfg) ==
    [c EXCEPT !.muxSelect = cfg.muxSelect, !.userCallback = NoCallback]
StartContext_Kept(c, cfg) == c
StartContext(c, cfg) == [c EXCEPT !.muxSelect = cfg.muxSelect]

\* line 325: the NVIC after a polling-mode adc_start_conversion
StartPollingNvic_Kept(n, i) == n
StartPollingNvic(n, i) == [n EXCEPT ![i] = FALSE]

\* line 349: the registers after adc_stop_conversion's second statement
StopInterrupt_Kept(r, cfg) ==
    [r EXCEPT !.coco[cfg.muxSelect] = FALSE]
StopInterrupt(r, cfg) == adc_hal_configure_interrupt(r, cfg.muxSelect, FALSE)

\* line 383: the arguments adc_get_conversion_value refuses
ValueArgsInvalid_NullOnly(i, cfg) == cfg.isNull
ValueArgsInvalid(i, cfg) == (i >= HW_ADC_INSTANCE_COUNT) \/ cfg.isNull

\* line 388: whether adc_get_conversion_value polls
PollingMode_Always(cfg) == TRUE
PollingMode(cfg) == ~cfg.isInterruptEnabled

\* line 390: whether the loop of adc_get_conversion_value ends
PollExit_Timeout(r, cfg) == TRUE
PollExit(r, cfg) == adc_hal_is_conversion_completed(r, cfg.muxSelect)

\* lines 85-86: the value the ISR moves to the context
IsrValue_OtherGroup(r, c) ==
    adc_hal_get_conversion_value(r, (c.muxSelect + 1) % HW_ADC_SC1n_COUNT)
IsrValue(r, c) == adc_hal_get_conversion_value(r, c.muxSelect)

---------------------------------------------------------------------------
(* adc_init, lines 197-222 *)

adc_init ==
    /\ Is("adc_init")
    /\ \/ /\ Top.pc = 200
          /\ NullCheck(Top.arg, 206)
          /\ UNCHANGED <<gate, nvic, adc, ctx, param, calls, Hist>>
       \/ /\ Top.pc = 206
          /\ gate' = InitGate(gate, Top.inst)
          /\ Hal("clock_manager_set_gate", 209)
          /\ UNCHANGED <<nvic, adc, ctx, param, appRet, calls, Hist>>
       \/ /\ Top.pc = 209
          /\ adc' = [adc EXCEPT ![Top.inst].clockSourceMode =
                                    Top.arg.clockSourceMode]
          /\ Hal("adc_hal_set_clock_source_mode", 210)
          /\ UNCHANGED <<gate, nvic, ctx, param, appRet, calls, Hist>>
       \/ /\ Top.pc = 210
          /\ adc' = [adc EXCEPT ![Top.inst].clockDividerMode =
                                    Top.arg.clockSourceDividerMode]
          /\ Hal("adc_hal_set_clock_divider_mode", 213)
          /\ UNCHANGED <<gate, nvic, ctx, param, appRet, calls, Hist>>
       \/ /\ Top.pc = 213
          /\ adc' = [adc EXCEPT ![Top.inst].referenceVoltageMode =
                                    Top.arg.referenceVoltageMode]
          /\ Hal("adc_hal_set_reference_voltage_mode", 216)
          /\ UNCHANGED <<gate, nvic, ctx, param, appRet, calls, Hist>>
       \/ /\ Top.pc = 216
          /\ adc' = [adc EXCEPT ![Top.inst].resolutionMode =
                                    Top.arg.resolutionMode]
          /\ Hal("adc_hal_set_resolution_mode", 219)
          /\ UNCHANGED <<gate, nvic, ctx, param, appRet, calls, Hist>>
       \/ /\ Top.pc = 219
          /\ adc' = [adc EXCEPT ![Top.inst].continuous =
                                    Top.arg.isContinuousEnabled]
          /\ Hal("adc_hal_configure_continuous_conversion", 221)
          /\ UNCHANGED <<gate, nvic, ctx, param, appRet, calls, Hist>>
       \/ /\ Top.pc = 221
          /\ Return(kStatus_ADC_Success)
          /\ lastGateOp' = [lastGateOp EXCEPT ![Top.inst] = "adc_init"]
          /\ UNCHANGED <<gate, nvic, adc, ctx, param, calls,
                         lastReg, stopped, lastStore>>
    /\ UNCHANGED nvVars

(* adc_shutdown, lines 290-294 *)

adc_shutdown ==
    /\ Is("adc_shutdown")
    /\ \/ /\ Top.pc = 293
          /\ gate' = [gate EXCEPT ![Top.inst] = FALSE]
          /\ Hal("clock_manager_set_gate", 294)
          /\ UNCHANGED <<nvic, adc, ctx, param, appRet, calls, Hist>>
       \/ /\ Top.pc = 294
          /\ Return("void")
          /\ lastGateOp' = [lastGateOp EXCEPT ![Top.inst] = "adc_shutdown"]
          /\ UNCHANGED <<gate, nvic, adc, ctx, param, calls,
                         lastReg, stopped, lastStore>>
    /\ UNCHANGED nvVars

---------------------------------------------------------------------------
(* adc_init_extend, lines 231-281 *)

adc_init_extend ==
    /\ Is("adc_init_extend")
    /\ LET i == Top.inst
           cfg == Top.arg
       IN
       \/ /\ Top.pc = 234
          /\ NullCheck(cfg, 240)
          /\ UNCHANGED adc
       \/ /\ Top.pc = 240
          /\ adc' = [adc EXCEPT ![i].highSpeed = cfg.isHighSpeedEnabled]
          /\ Hal("adc_hal_configure_high_speed", 243)
          /\ UNCHANGED appRet
       \/ /\ Top.pc = 243
          /\ IF cfg.isLongSampleEnabled THEN Goto(245) ELSE Goto(247)
          /\ UNCHANGED <<adc, appRet>>
       \/ /\ Top.pc = 245
          /\ adc' = [adc EXCEPT ![i].longSampleMode = cfg.hwLongSampleMode]
          /\ Hal("adc_hal_set_long_sample_mode", 247)
          /\ UNCHANGED appRet
       \/ /\ Top.pc = 247
          /\ adc' = [adc EXCEPT ![i].longSample = cfg.isLongSampleEnabled]
          /\ Hal("adc_hal_configure_long_sample", 250)
          /\ UNCHANGED appRet
       \/ /\ Top.pc = 250
          /\ adc' = [adc EXCEPT ![i].lowPower = cfg.isLowPowerEnabled]
          /\ Hal("adc_hal_configure_low_power", 253)
          /\ UNCHANGED appRet
       \/ /\ Top.pc = 253
          /\ adc' = [adc EXCEPT ![i].asyncClock = cfg.isAsynClockEnabled]
          /\ Hal("adc_hal_configure_asynchronous_clock", 256)
          /\ UNCHANGED appRet
       \/ /\ Top.pc = 256
          /\ adc' = [adc EXCEPT ![i].hwTrigger = cfg.isHwTriggerEnabled]
          /\ Hal("adc_hal_configure_hw_trigger", 259)
          /\ UNCHANGED appRet
       \/ /\ Top.pc = 259
          /\ IF cfg.isHwAverageEnabled THEN Goto(261) ELSE Goto(263)
          /\ UNCHANGED <<adc, appRet>>
       \/ /\ Top.pc = 261
          /\ adc' = [adc EXCEPT ![i] =
                       adc_hal_set_hw_average_mode(@, cfg.hwAverageSampleMode)]
          /\ Hal("adc_hal_set_hw_average_mode", 263)
          /\ UNCHANGED appRet
       \/ /\ Top.pc = 263
          /\ adc' = [adc EXCEPT ![i] =
                       adc_hal_configure_hw_average(@, cfg.isHwAverageEnabled)]
          /\ Hal("adc_hal_configure_hw_average", 266)
          /\ UNCHANGED appRet
       \/ /\ Top.pc = 266
          /\ IF cfg.isHwCompareEnabled THEN Goto(268) ELSE Goto(275)
          /\ UNCHANGED <<adc, appRet>>
       \/ /\ Top.pc = 268
          /\ adc' = [adc EXCEPT ![i].cv1 = cfg.hwCompareValue1]
          /\ Hal("adc_hal_set_hw_compare_value1", 269)
          /\ UNCHANGED appRet
       \/ /\ Top.pc = 269
          /\ adc' = [adc EXCEPT ![i].cv2 = cfg.hwCompareValue2]
          /\ Hal("adc_hal_set_hw_compare_value2", 270)
          /\ UNCHANGED appRet
       \/ /\ Top.pc = 270
          /\ adc' = [adc EXCEPT ![i].cmpGreater = cfg.isHwCompareGreaterEnabled]
          /\ Hal("adc_hal_configure_hw_compare_greater", 272)
          /\ UNCHANGED appRet
       \/ /\ Top.pc = 272
          /\ adc' = [adc EXCEPT ![i].cmpRange = cfg.isHwCompareRangeEnabled]
          /\ Hal("adc_hal_configure_hw_compare_in_range", 275)
          /\ UNCHANGED appRet
       \/ /\ Top.pc = 275
          /\ adc' = [adc EXCEPT ![i].hwCompare = cfg.isHwCompareEnabled]
          /\ Hal("adc_hal_configure_hw_compare", 278)
          /\ UNCHANGED appRet
       \/ /\ Top.pc = 278
          /\ adc' = [adc EXCEPT ![i].dma = cfg.isDmaEnabled]
          /\ Hal("adc_hal_configure_dma", 280)
          /\ UNCHANGED appRet
       \/ /\ Top.pc = 280
          /\ Return(kStatus_ADC_Success)
          /\ UNCHANGED adc
    /\ UNCHANGED <<gate, nvic, ctx, param, calls, Hist>>
    /\ UNCHANGED nvVars

---------------------------------------------------------------------------
(* adc_get_calibration_param, lines 107-122.  adc_hal_start_calibration   *)
(* runs the hardware calibration and waits for it to end: it either fails *)
(* or leaves some calibration results in the instance.  paramPtr points   *)
(* to the application's param.                                            *)

adc_get_calibration_param ==
    /\ Is("adc_get_calibration_param")
    /\ LET i == Top.inst
       IN
       \/ /\ Top.pc = 109
          /\ \/ /\ adc' = [adc EXCEPT ![i] = CalibrationFailed(@)]
                /\ Hal("adc_hal_start_calibration",
                       AfterStartCalibration(kStatus_ADC_Failed))
             \/ /\ \E pg \in CalVals, mg \in CalVals :
                      adc' = [adc EXCEPT ![i] = CalibrationDone(@, pg, mg)]
                /\ Hal("adc_hal_start_calibration",
                       AfterStartCalibration(kStatus_ADC_Success))
          /\ UNCHANGED <<param, appRet>>
       \/ /\ Top.pc = 111
          /\ Return(kStatus_ADC_Failed)
          /\ UNCHANGED <<adc, param>>
       \/ /\ Top.pc = 114
          /\ param' = [param EXCEPT !.PG = adc_hal_get_calibration_PG(adc[i])]
          /\ Hal("adc_hal_get_calibration_PG", 115)
          /\ UNCHANGED <<adc, appRet>>
       \/ /\ Top.pc = 115
          /\ param' = [param EXCEPT !.MG = adc_hal_get_calibration_MG(adc[i])]
          /\ Hal("adc_hal_get_calibration_MG", 117)
          /\ UNCHANGED <<adc, appRet>>
       \/ /\ Top.pc = 117
          /\ adc' = [adc EXCEPT ![i] = AfterResultRead(@, 0)]
          /\ Hal("adc_hal_get_conversion_value", 119)
          /\ UNCHANGED <<param, appRet>>
       \/ /\ Top.pc = 119
          /\ adc' = [adc EXCEPT ![i] = adc_hal_end_calibration(@)]
          /\ Hal("adc_hal_end_calibration", 121)
          /\ UNCHANGED <<param, appRet>>
       \/ /\ Top.pc = 121
          /\ Return(kStatus_ADC_Success)
          /\ UNCHANGED <<adc, param>>
    /\ UNCHANGED <<gate, nvic, ctx, calls, Hist>>
    /\ UNCHANGED nvVars

(* adc_set_calibration_param, lines 132-143 *)

adc_set_calibration_param ==
    /\ Is("adc_set_calibration_param")
    /\ LET i == Top.inst
       IN
       \/ /\ Top.pc = 134
          /\ NullCheck(Top.arg, 139)
          /\ UNCHANGED adc
       \/ /\ Top.pc = 139
          /\ adc' = [adc EXCEPT ![i].PG = param.PG]
          /\ Hal("adc_hal_set_calibration_PG", 140)
          /\ UNCHANGED appRet
       \/ /\ Top.pc = 140
          /\ adc' = [adc EXCEPT ![i].MG = param.MG]
          /\ Hal("adc_hal_set_calibration_MG", 142)
          /\ UNCHANGED appRet
       \/ /\ Top.pc = 142
          /\ Return(kStatus_ADC_Success)
          /\ UNCHANGED adc
    /\ UNCHANGED <<gate, nvic, ctx, param, calls, Hist>>
    /\ UNCHANGED nvVars

(* adc_auto_calibration, lines 156-188.  Lines 169, 178 and 183 stand for *)
(* the return of the call made on the line before, whose result is in the *)
(* frame's rv.                                                            *)

adc_auto_calibration ==
    /\ Is("adc_auto_calibration")
    /\ LET i == Top.inst
       IN
       \/ /\ Top.pc = 168
          /\ Invoke("adc_init", 200, i, CalibrationCfg, 169)
          /\ UNCHANGED <<adc, appRet>>
       \/ /\ Top.pc = 169
          /\ IF Top.rv # kStatus_ADC_Success
             THEN Return(kStatus_ADC_Failed)
             ELSE Goto(173) /\ UNCHANGED appRet
          /\ UNCHANGED adc
       \/ /\ Top.pc = 173
          /\ adc' = [adc EXCEPT ![i] = adc_hal_configure_hw_average(@, TRUE)]
          /\ Hal("adc_hal_configure_hw_average", 174)
          /\ UNCHANGED appRet
       \/ /\ Top.pc = 174
          /\ adc' = [adc EXCEPT ![i] =
                       adc_hal_set_hw_average_mode(@, "kAdcHwAverageCount32")]
          /\ Hal("adc_hal_set_hw_average_mode", 177)
          /\ UNCHANGED appRet
       \/ /\ Top.pc = 177
          /\ Invoke("adc_get_calibration_param", 109, i, Top.arg, 178)
          /\ UNCHANGED <<adc, appRet>>
       \/ /\ Top.pc = 178
          /\ IF Top.rv # kStatus_ADC_Success THEN Goto(179) ELSE Goto(182)
          /\ UNCHANGED <<adc, appRet>>
       \/ /\ Top.pc = 179
          /\ Return(kStatus_ADC_Failed)
          /\ UNCHANGED adc
       \/ /\ Top.pc = 182
          /\ Invoke("adc_set_calibration_param", 134, i, Top.arg, 183)
          /\ UNCHANGED <<adc, appRet>>
       \/ /\ Top.pc = 183
          /\ Goto(185)
          /\ UNCHANGED <<adc, appRet>>
       \/ /\ Top.pc = 185
          /\ adc' = [adc EXCEPT ![i] = adc_hal_configure_hw_average(@, FALSE)]
          /\ Hal("adc_hal_configure_hw_average", 187)
          /\ UNCHANGED appRet
       \/ /\ Top.pc = 187
          /\ Return(kStatus_ADC_Success)
          /\ UNCHANGED adc
    /\ UNCHANGED <<gate, nvic, ctx, param, calls, Hist>>
    /\ UNCHANGED nvVars

---------------------------------------------------------------------------
(* adc_start_conversion, lines 302-333 *)

adc_start_conversion ==
    /\ Is("adc_start_conversion")
    /\ LET i == Top.inst
           cfg == Top.arg
       IN
       \/ /\ Top.pc = 305
          /\ NullCheck(cfg, 310)
          /\ UNCHANGED <<gate, nvic, adc, ctx, param, calls, Hist>>
       \/ /\ Top.pc = 310
          /\ adc' = [adc EXCEPT ![i] = StartDisable(@, cfg)]
          /\ Hal("adc_hal_disable", 313)
          /\ stopped' = [stopped EXCEPT ![i][cfg.muxSelect] = FALSE]
          /\ UNCHANGED <<gate, nvic, ctx, param, appRet, calls,
                         lastGateOp, lastReg, lastStore>>
       \/ /\ Top.pc = 313
          /\ adc' = [adc EXCEPT ![i] = adc_hal_set_group_mux(@, cfg.muxSelect)]
          /\ Hal("adc_hal_set_group_mux", 316)
          /\ UNCHANGED <<gate, nvic, ctx, param, appRet, calls, Hist>>
       \/ /\ Top.pc = 316
          /\ IF cfg.isInterruptEnabled THEN Goto(318) ELSE Goto(324)
          /\ UNCHANGED <<gate, nvic, adc, ctx, param, appRet, calls, Hist>>
       \/ /\ Top.pc = 318
          /\ ctx' = [ctx EXCEPT ![i] = StartContext(@, cfg)]
          /\ Goto(319)
          /\ UNCHANGED <<gate, nvic, adc, param, appRet, calls, Hist>>
       \/ /\ Top.pc = 319
          /\ nvic' = [nvic EXCEPT ![i] = TRUE]
          /\ Hal("interrupt_enable", 320)
          /\ UNCHANGED <<gate, adc, ctx, param, appRet, calls, Hist>>
       \/ /\ Top.pc = 320
          /\ adc' = [adc EXCEPT ![i] =
                       adc_hal_configure_interrupt(@, cfg.muxSelect, TRUE)]
          /\ Hal("adc_hal_configure_interrupt", 329)
          /\ UNCHANGED <<gate, nvic, ctx, param, appRet, calls, Hist>>
       \/ /\ Top.pc = 324
          /\ adc' = [adc EXCEPT ![i] =
                       adc_hal_configure_interrupt(@, cfg.muxSelect, FALSE)]
          /\ Hal("adc_hal_configure_interrupt", 325)
          /\ UNCHANGED <<gate, nvic, ctx, param, appRet, calls, Hist>>
       \/ /\ Top.pc = 325
          /\ nvic' = StartPollingNvic(nvic, i)
          /\ Hal("interrupt_disable", 329)
          /\ UNCHANGED <<gate, adc, ctx, param, appRet, calls, Hist>>
       \/ /\ Top.pc = 329
          /\ adc' = [adc EXCEPT ![i] =
                       adc_hal_enable(@, cfg.muxSelect, cfg.channelId,
                                      cfg.isDifferentialEnabled)]
          /\ Hal("adc_hal_enable", 332)
          /\ UNCHANGED <<gate, nvic, ctx, param, appRet, calls, Hist>>
       \/ /\ Top.pc = 332
          /\ Return(kStatus_ADC_Success)
          /\ UNCHANGED <<gate, nvic, adc, ctx, param, calls, Hist>>
    /\ UNCHANGED nvVars

(* adc_stop_conversion, lines 341-352 *)

adc_stop_conversion ==
    /\ Is("adc_stop_conversion")
    /\ LET i == Top.inst
           cfg == Top.arg
       IN
       \/ /\ Top.pc = 344
          /\ NullCheck(cfg, 348)
          /\ UNCHANGED <<gate, nvic, adc, ctx, param, calls, Hist>>
       \/ /\ Top.pc = 348
          /\ adc' = [adc EXCEPT ![i] = adc_hal_disable(@, cfg.muxSelect)]
          /\ Hal("adc_hal_disable", 349)
          /\ UNCHANGED <<gate, nvic, ctx, param, appRet, calls, Hist>>
       \/ /\ Top.pc = 349
          /\ adc' = [adc EXCEPT ![i] = StopInterrupt(@, cfg)]
          /\ Hal("adc_hal_configure_interrupt", 351)
          /\ UNCHANGED <<gate, nvic, ctx, param, appRet, calls, Hist>>
       \/ /\ Top.pc = 351
          /\ Return(kStatus_ADC_Success)
          /\ stopped' = [stopped EXCEPT ![i][cfg.muxSelect] = TRUE]
          /\ UNCHANGED <<gate, nvic, adc, ctx, param, calls,
                         lastGateOp, lastReg, lastStore>>
    /\ UNCHANGED nvVars

(* adc_is_conversion_completed, lines 360-368 *)

adc_is_conversion_completed ==
    /\ Is("adc_is_conversion_completed")
    /\ Top.pc = 363
    /\ IF Top.arg.isNull
       THEN Return(FALSE)
       ELSE Return(adc_hal_is_conversion_completed(adc[Top.inst],
                                                   Top.arg.muxSelect))
    /\ UNCHANGED <<gate, nvic, adc, ctx, param, calls, Hist>>
    /\ UNCHANGED nvVars

(* adc_get_conversion_value, lines 380-397.  The frame's tmp keeps the    *)
(* value line 392 read from the result register.                          *)

adc_get_conversion_value ==
    /\ Is("adc_get_conversion_value")
    /\ LET i == Top.inst
           cfg == Top.arg
       IN
       \/ /\ Top.pc = 383
          /\ IF ValueArgsInvalid(i, cfg)
             THEN Return(0)
             ELSE Goto(388) /\ UNCHANGED appRet
          /\ UNCHANGED <<gate, nvic, adc, ctx, param, calls, Hist>>
       \/ /\ Top.pc = 388
          /\ IF PollingMode(cfg) THEN Goto(390) ELSE Goto(396)
          /\ UNCHANGED <<gate, nvic, adc, ctx, param, appRet, calls, Hist>>
       \/ /\ Top.pc = 390
          \* the empty loop: the frame stays here until the flag is set
          /\ PollExit(adc[i], cfg)
          /\ Hal("adc_hal_is_conversion_completed", 392)
          /\ UNCHANGED <<gate, nvic, adc, ctx, param, appRet, calls, Hist>>
       \/ /\ Top.pc = 392
          /\ LET v == adc_hal_get_conversion_value(adc[i], cfg.muxSelect)
             IN /\ ctx' = [ctx EXCEPT ![i].value = v]
                /\ lastStore' = [lastStore EXCEPT ![i].by = "poll",
                                                  ![i].val = v]
                /\ stk' = [stk EXCEPT ![Len(stk)].pc = 396,
                                      ![Len(stk)].tmp = v,
                                      ![Len(stk)].log =
                                          Append(@, "adc_hal_get_conversion_value")]
          /\ adc' = [adc EXCEPT ![i] = AfterResultRead(@, cfg.muxSelect)]
          /\ UNCHANGED <<gate, nvic, param, appRet, calls,
                         lastGateOp, lastReg, stopped>>
       \/ /\ Top.pc = 396
          /\ Return(ctx[i].value)
          /\ UNCHANGED <<gate, nvic, adc, ctx, param, calls, Hist>>
    /\ UNCHANGED nvVars

(* adc_register_user_callback_isr, lines 406-409 *)

adc_register_user_callback_isr ==
    /\ Is("adc_register_user_callback_isr")
    /\ \/ /\ Top.pc = 408
          /\ ctx' = [ctx EXCEPT ![Top.inst].userCallback = Top.arg.func]
          /\ lastReg' = [lastReg EXCEPT ![Top.inst] = Top.arg.func]
          /\ Goto(409)
          /\ UNCHANGED <<gate, nvic, adc, param, appRet, calls,
                         lastGateOp, stopped, lastStore>>
       \/ /\ Top.pc = 409
          /\ Return("void")
          /\ UNCHANGED <<gate, nvic, adc, ctx, param, calls, Hist>>
    /\ UNCHANGED nvVars

---------------------------------------------------------------------------
(* adc_isr_internal, lines 81-92.  The frame's tmp keeps the value line 85 *)
(* read; its rv keeps the callback line 90 called ("none": none yet).     *)

adc_isr_internal ==
    /\ Is("adc_isr_internal")
    /\ LET i == Top.inst
       IN
       \/ /\ Top.pc = 85
          /\ LET v == IsrValue(adc[i], ctx[i])
             IN /\ ctx' = [ctx EXCEPT ![i].value = v]
                /\ lastStore' = [lastStore EXCEPT ![i] =
                                   [by |-> "isr", val |-> v, isr |-> v]]
                /\ stk' = [stk EXCEPT ![Len(stk)].pc = 88,
                                      ![Len(stk)].tmp = v,
                                      ![Len(stk)].log =
                                          Append(@, "adc_hal_get_conversion_value")]
          /\ adc' = [adc EXCEPT ![i] = AfterResultRead(@, ctx[i].muxSelect)]
          /\ UNCHANGED <<gate, nvic, param, appRet, calls,
                         lastGateOp, lastReg, stopped>>
       \/ /\ Top.pc = 88
          /\ IF ctx[i].userCallback # NoCallback
             THEN stk' = Append([stk EXCEPT ![Len(stk)].pc = 92,
                                           ![Len(stk)].log =
                                               Append(@, ctx[i].userCallback)],
                                Frame(ctx[i].userCallback, 1, i, NoArg))
             ELSE Goto(92)
          /\ UNCHANGED <<gate, nvic, adc, ctx, param, appRet, calls, Hist>>
       \/ /\ Top.pc = 92
          /\ ReturnVoid
          /\ UNCHANGED <<gate, nvic, adc, ctx, param, calls, Hist>>
    /\ UNCHANGED nvVars

(* The application's callbacks.  cbRead reads the conversion value in     *)
(* interrupt mode from the instance whose interrupt called it, and keeps  *)
(* it in its frame's rv; cbNop does nothing.                              *)

UserCallback ==
    /\ Running
    /\ Top.f \in Callbacks
    /\ \/ /\ Top.f = "cbRead"
          /\ Top.pc = 1
          /\ Invoke("adc_get_conversion_value", 383, Top.inst,
                    ChannelCfg(0, TRUE), 2)
       \/ /\ Top.f = "cbRead"
          /\ Top.pc = 2
          /\ ReturnVoid
       \/ /\ Top.f = "cbNop"
          /\ ReturnVoid
    /\ UNCHANGED <<gate, nvic, adc, ctx, param, appRet, calls, Hist>>
    /\ UNCHANGED nvVars

(* The interrupt controller: the interrupt of instance i is taken when it *)
(* is enabled in the NVIC and requested by the ADC, unless an ADC         *)
(* interrupt is being served (the ADC interrupts do not nest).            *)

Interrupt(i) ==
    /\ nvic[i]
    /\ IrqPending(i)
    /\ ~InIsr
    /\ stk' = Append(stk, Frame("adc_isr_internal", 85, i, NoArg))
    /\ UNCHANGED <<gate, nvic, adc, ctx, param, appRet, calls, Hist>>
    /\ UNCHANGED nvVars

(* The converter: a conversion in progress on group g of a clocked        *)
(* instance completes with some result; in continuous mode the next one   *)
(* begins.                                                                *)

ConversionComplete(i, g) ==
    /\ gate[i]
    /\ adc[i].busy[g]
    /\ \E v \in Values :
          adc' = [adc EXCEPT ![i].R[g] = v, ![i].coco[g] = TRUE,
                             ![i].busy[g] = adc[i].continuous]
    /\ UNCHANGED <<gate, nvic, ctx, stk, param, appRet, calls, Hist>>
    /\ UNCHANGED nvVars

---------------------------------------------------------------------------
(* The application: one call at a time, while nothing is running.  The   *)
(* application passes only valid instances, except to                      *)
(* adc_get_conversion_value, the one function that checks the instance,   *)
(* and never NULL to adc_get_calibration_param and adc_auto_calibration,  *)
(* which dereference paramPtr unchecked.                                   *)

InitCalls(I, A) ==
    [f : {"adc_init"}, first : {200}, inst : I, arg : A]
ExtendCalls(I, A) ==
    [f : {"adc_init_extend"}, first : {234}, inst : I, arg : A]
ShutdownCalls(I) ==
    [f : {"adc_shutdown"}, first : {293}, inst : I, arg : {NoArg}]
StartCalls(I, A) ==
    [f : {"adc_start_conversion"}, first : {305}, inst : I, arg : A]
StopCalls(I, A) ==
    [f : {"adc_stop_conversion"}, first : {344}, inst : I, arg : A]
CompletedCalls(I, A) ==
    [f : {"adc_is_conversion_completed"}, first : {363}, inst : I, arg : A]
ValueCalls(I, A) ==
    [f : {"adc_get_conversion_value"}, first : {383}, inst : I, arg : A]
RegisterCalls(I, C) ==
    [f : {"adc_register_user_callback_isr"}, first : {408}, inst : I,
     arg : {[isNull |-> FALSE, func |-> c] : c \in C}]
GetCalibrationCalls(I) ==
    [f : {"adc_get_calibration_param"}, first : {109}, inst : I,
     arg : {ParamArg}]
SetCalibrationCalls(I, A) ==
    [f : {"adc_set_calibration_param"}, first : {134}, inst : I, arg : A]
AutoCalibrationCalls(I) ==
    [f : {"adc_auto_calibration"}, first : {168}, inst : I, arg : {ParamArg}]

AnyChannelCfg == {ChannelCfg(g, b) : g \in Mux, b \in BOOLEAN}
PollCfg == {ChannelCfg(g, FALSE) : g \in Mux}

\* The application's calls go to the instances in Tested.  The driver
\* indexes all its state by the instance, so nothing is lost.
Tested == {0}

\* every function of the driver's API (adc_auto_calibration calls
\* adc_get_calibration_param and adc_set_calibration_param)
AppCalls ==
    InitCalls(Tested, {UserCfg})
    \cup ExtendCalls(Tested, {ExtendCfg(TRUE)})
    \cup ShutdownCalls(Tested)
    \cup StartCalls(Tested, {ChannelCfg(0, TRUE)})
    \cup StopCalls(Tested, {ChannelCfg(0, FALSE)})
    \cup CompletedCalls(Tested, {ChannelCfg(0, FALSE)})
    \cup ValueCalls(Tested, {ChannelCfg(0, TRUE)})
    \cup RegisterCalls(Tested, Callbacks \cup {NoCallback})
    \cup AutoCalibrationCalls(Tested)

\* every function of the driver's API with every kind of argument
ArgCalls ==
    InitCalls(Tested, {NullArg, UserCfg})
    \cup ExtendCalls(Tested, {NullArg, ExtendCfg(TRUE), ExtendCfg(FALSE)})
    \cup ShutdownCalls(Tested)
    \cup StartCalls(Tested, {NullArg} \cup AnyChannelCfg)
    \cup StopCalls(Tested, {NullArg} \cup PollCfg)
    \cup CompletedCalls(Tested, {NullArg} \cup PollCfg)
    \cup ValueCalls(Tested, {NullArg} \cup PollCfg \cup {ChannelCfg(0, TRUE)})
    \cup ValueCalls({HW_ADC_INSTANCE_COUNT}, {ChannelCfg(0, FALSE)})
    \cup RegisterCalls(Tested, Callbacks \cup {NoCallback})
    \cup GetCalibrationCalls(Tested)
    \cup SetCalibrationCalls(Tested, {NullArg, ParamArg})
    \cup AutoCalibrationCalls(Tested)

\* starting conversions and reading their results
PollCalls ==
    InitCalls(Tested, {UserCfg})
    \cup StartCalls(Tested, PollCfg \cup {ChannelCfg(0, TRUE)})
    \cup ValueCalls(Tested, PollCfg \cup {ChannelCfg(0, TRUE)})

\* the conversion API with callbacks
IsrCalls ==
    InitCalls(Tested, {UserCfg})
    \cup StartCalls(Tested, AnyChannelCfg)
    \cup StopCalls(Tested, PollCfg)
    \cup ValueCalls(Tested, PollCfg \cup {ChannelCfg(0, TRUE)})
    \cup RegisterCalls(Tested, Callbacks \cup {NoCallback})

\* clock, configuration and calibration
CalCalls ==
    InitCalls(Tested, {UserCfg})
    \cup ExtendCalls(Tested, {ExtendCfg(TRUE), ExtendCfg(FALSE)})
    \cup ShutdownCalls(Tested)
    \cup GetCalibrationCalls(Tested)
    \cup SetCalibrationCalls(Tested, {ParamArg})
    \cup AutoCalibrationCalls(Tested)

\* every function of the driver's API on every instance
IsoCalls ==
    InitCalls(Inst, {UserCfg})
    \cup ExtendCalls(Inst, {ExtendCfg(TRUE)})
    \cup ShutdownCalls(Inst)
    \cup StartCalls(Inst, {ChannelCfg(0, TRUE)})
    \cup StopCalls(Inst, {ChannelCfg(0, FALSE)})
    \cup CompletedCalls(Inst, {ChannelCfg(0, FALSE)})
    \cup ValueCalls(Inst, {ChannelCfg(0, FALSE), ChannelCfg(0, TRUE)})
    \cup RegisterCalls(Inst, {"cbNop"})
    \cup AutoCalibrationCalls(Inst)

\* conversions started, stopped and read by polling
LiveCalls ==
    InitCalls(Tested, {UserCfg, SingleCfg})
    \cup StartCalls(Tested, {ChannelCfg(0, FALSE), ChannelCfg(0, TRUE)})
    \cup StopCalls(Tested, {ChannelCfg(0, FALSE)})
    \cup ValueCalls(Tested, PollCfg)

AppCall(menu, max) ==
    /\ stk = <<>>
    /\ calls < max
    /\ \E c \in menu : stk' = <<Frame(c.f, c.first, c.inst, c.arg)>>
    /\ calls' = calls + 1
    /\ UNCHANGED <<gate, nvic, adc, ctx, param, appRet, Hist>>
    /\ UNCHANGED nvVars

---------------------------------------------------------------------------
(* The NV register map, MK64F12_nv.h: the flash configuration field.  The *)
(* header gives each register an address macro HW_NV_<R>_ADDR, a union    *)
(* type (the byte U and the bitfield struct B), and for each bitfield the *)
(* constants BP_ (position), BM_ (mask) and BS_ (size); the struct        *)
(* hw_nv_t lays all the registers out from REGS_NV_BASE.                  *)

REGS_NV_BASE == 1024
UINT8_MAX == 255

\* hw_nv_t, lines 929-947: the members in the order of their declaration
hw_nv_t_Ascending ==
    <<"BACKKEY0", "BACKKEY1", "BACKKEY2", "BACKKEY3",
      "BACKKEY4", "BACKKEY5", "BACKKEY6", "BACKKEY7",
      "FPROT0", "FPROT1", "FPROT2", "FPROT3",
      "FSEC", "FOPT", "FEPROT", "FDPROT">>
hw_nv_t ==
    <<"BACKKEY3", "BACKKEY2", "BACKKEY1", "BACKKEY0",
      "BACKKEY7", "BACKKEY6", "BACKKEY5", "BACKKEY4",
      "FPROT3", "FPROT2", "FPROT1", "FPROT0",
      "FSEC", "FOPT", "FEPROT", "FDPROT">>

NvRegisters == {hw_nv_t[k] : k \in DOMAIN hw_nv_t}

\* the macros HW_NV_<R>_ADDR
HW_NV_ADDR(R) ==
    CASE
         R = "BACKKEY3" -> REGS_NV_BASE + 0
      [] R = "BACKKEY2" -> REGS_NV_BASE + 1
      [] R = "BACKKEY1" -> REGS_NV_BASE + 2
      [] R = "BACKKEY0" -> REGS_NV_BASE + 3
      [] R = "BACKKEY7" -> REGS_NV_BASE + 4
      [] R = "BACKKEY6" -> REGS_NV_BASE + 5
      [] R = "BACKKEY5" -> REGS_NV_BASE + 6
      [] R = "BACKKEY4" -> REGS_NV_BASE + 7
      [] R = "FPROT3"   -> REGS_NV_BASE + 8
      [] R = "FPROT2"   -> REGS_NV_BASE + 9
      [] R = "FPROT1"   -> REGS_NV_BASE + 10
      [] R = "FPROT0"   -> REGS_NV_BASE + 11
      [] R = "FSEC"     -> REGS_NV_BASE + 12
      [] R = "FOPT"     -> REGS_NV_BASE + 13
      [] R = "FEPROT"   -> REGS_NV_BASE + 14
      [] R = "FDPROT"   -> REGS_NV_BASE + 15

\* the struct B of each register's union: its members and their widths
Member(name, width) == [name |-> name, width |-> width]

hw_nv_bitfields(R) ==
    CASE
         R = "BACKKEY3" -> <<Member("KEY", 8)>>
      [] R = "BACKKEY2" -> <<Member("KEY", 8)>>
      [] R = "BACKKEY1" -> <<Member("KEY", 8)>>
      [] R = "BACKKEY0" -> <<Member("KEY", 8)>>
      [] R = "BACKKEY7" -> <<Member("KEY", 8)>>
      [] R = "BACKKEY6" -> <<Member("KEY", 8)>>
      [] R = "BACKKEY5" -> <<Member("KEY", 8)>>
      [] R = "BACKKEY4" -> <<Member("KEY", 8)>>
      [] R = "FPROT3"   -> <<Member("PROT", 8)>>
      [] R = "FPROT2"   -> <<Member("PROT", 8)>>
      [] R = "FPROT1"   -> <<Member("PROT", 8)>>
      [] R = "FPROT0"   -> <<Member("PROT", 8)>>
      [] R = "FSEC"     -> <<Member("SEC", 2), Member("FSLACC", 2),
                             Member("MEEN", 2), Member("KEYEN", 2)>>
      [] R = "FOPT"     -> <<Member("LPBOOT", 1), Member("EZPORT_DIS", 1),
                             Member("RESERVED0", 6)>>
      [] R = "FEPROT"   -> <<Member("EPROT", 8)>>
      [] R = "FDPROT"   -> <<Member("DPROT", 8)>>

\* the constants BP_NV_<R>_<F>, BM_NV_<R>_<F>, BS_NV_<R>_<F>
Macros(R, F, bp, bm, bs) ==
    [reg |-> R, field |-> F, BP |-> bp, BM |-> bm, BS |-> bs]

NvFieldMacros ==
    {
     Macros("BACKKEY3", "KEY", 0, 255, 8),
     Macros("BACKKEY2", "KEY", 0, 255, 8),
     Macros("BACKKEY1", "KEY", 0, 255, 8),
     Macros("BACKKEY0", "KEY", 0, 255, 8),
     Macros("BACKKEY7", "KEY", 0, 255, 8),
     Macros("BACKKEY6", "KEY", 0, 255, 8),
     Macros("BACKKEY5", "KEY", 0, 255, 8),
     Macros("BACKKEY4", "KEY", 0, 255, 8),
     Macros("FPROT3", "PROT", 0, 255, 8),
     Macros("FPROT2", "PROT", 0, 255, 8),
     Macros("FPROT1", "PROT", 0, 255, 8),
     Macros("FPROT0", "PROT", 0, 255, 8),
     Macros("FSEC", "SEC", 0, 3, 2),
     Macros("FSEC", "FSLACC", 2, 12, 2),
     Macros("FSEC", "MEEN", 4, 48, 2),
     Macros("FSEC", "KEYEN", 6, 192, 2),
     Macros("FOPT", "LPBOOT", 0, 1, 1),
     Macros("FOPT", "EZPORT_DIS", 1, 2, 1),
     Macros("FEPROT", "EPROT", 0, 255, 8),
     Macros("FDPROT", "DPROT", 0, 255, 8)
    }

FieldMacros(R, F) == CHOOSE m \in NvFieldMacros : m.reg = R /\ m.field = F

\* C: what the compiler makes of the declarations.  Bitfields of a struct
\* are allocated from the least significant bit of their storage unit
\* (ARM EABI, little-endian); a struct takes the bytes that hold its
\* bitfields, a union the size of its largest member; under pack(1) the
\* members of hw_nv_t follow each other without padding.
RECURSIVE WidthAfter(_, _)
WidthAfter(fields, k) ==
    IF k >= Len(fields) THEN 0
    ELSE fields[k + 1].width + WidthAfter(fields, k + 1)

RECURSIVE WidthBefore(_, _)
WidthBefore(fields, k) ==
    IF k <= 1 THEN 0
    ELSE fields[k - 1].width + WidthBefore(fields, k - 1)

MemberIndex(fields, F) == CHOOSE k \in DOMAIN fields : fields[k].name = F

BitfieldValue(byte, fields, k) ==
    (byte \div 2 ^ WidthBefore(fields, k)) % 2 ^ fields[k].width

SizeOfBitfields(fields) == (WidthBefore(fields, Len(fields) + 1) + 7) \div 8

SizeOf(R) ==
    LET b == SizeOfBitfields(hw_nv_bitfields(R))
    IN IF b > 1 THEN b ELSE 1

RECURSIVE OffsetAt(_)
OffsetAt(k) == IF k <= 1 THEN 0 ELSE OffsetAt(k - 1) + SizeOf(hw_nv_t[k - 1])

OffsetOf(R) == OffsetAt(CHOOSE k \in DOMAIN hw_nv_t : hw_nv_t[k] = R)

\* x & y on bytes
RECURSIVE BitAnd(_, _)
BitAnd(x, y) ==
    IF x = 0 \/ y = 0 THEN 0
    ELSE (x % 2) * (y % 2) + 2 * BitAnd(x \div 2, y \div 2)

\* the addresses of the flash configuration field, and its contents: byte
\* k of image n is n + 17 k (mod 256), so that the sixteen bytes of an
\* image differ and each register takes every value in some image
NvAddrs == REGS_NV_BASE .. REGS_NV_BASE + 15
NvImage(n) ==
    [a \in NvAddrs |-> (n + 17 * (a - REGS_NV_BASE)) % (UINT8_MAX + 1)]

NoRead == [how |-> "none", reg |-> "none", field |-> "none", val |-> 0]

(* The reads the header offers.  HW_NV_<R>_RD reads the byte of a         *)
(* register through its address macro, HW_NV.<R>.U through the struct;    *)
(* HW_NV_<R>.B.<F> reads a bitfield through the struct B, and             *)
(* (HW_NV_<R>_RD & BM_NV_<R>_<F>) >> BP_NV_<R>_<F> through its constants. *)

HW_NV_RD(R) ==
    /\ rd' = [how |-> "HW_NV_RD", reg |-> R, field |-> "U",
              val |-> nv[HW_NV_ADDR(R)]]
    /\ UNCHANGED <<nv, adcVars>>

HW_NV_U(R) ==
    /\ rd' = [how |-> "HW_NV", reg |-> R, field |-> "U",
              val |-> nv[REGS_NV_BASE + OffsetOf(R)]]
    /\ UNCHANGED <<nv, adcVars>>

HW_NV_B(R, F) ==
    /\ LET fields == hw_nv_bitfields(R)
       IN rd' = [how |-> "B", reg |-> R, field |-> F,
                 val |-> BitfieldValue(nv[HW_NV_ADDR(R)], fields,
                                       MemberIndex(fields, F))]
    /\ UNCHANGED <<nv, adcVars>>

HW_NV_MASK(R, F) ==
    /\ LET m == FieldMacros(R, F)
       IN rd' = [how |-> "MASK", reg |-> R, field |-> F,
                 val |-> BitAnd(nv[HW_NV_ADDR(R)], m.BM) \div 2 ^ m.BP]
    /\ UNCHANGED <<nv, adcVars>>

NvMembers(R) ==
    {hw_nv_bitfields(R)[k].name : k \in DOMAIN hw_nv_bitfields(R)}

NextNv ==
    \/ \E R \in NvRegisters : HW_NV_RD(R)
    \/ \E R \in NvRegisters : HW_NV_U(R)
    \/ \E R \in NvRegisters : \E F \in NvMembers(R) : HW_NV_B(R, F)
    \/ \E m \in NvFieldMacros : HW_NV_MASK(m.reg, m.field)

---------------------------------------------------------------------------

InitAdc ==
    /\ gate = [i \in Inst |-> FALSE]
    /\ nvic = [i \in Inst |-> FALSE]
    /\ adc = [i \in Inst |-> AdcReset]
    /\ ctx = [i \in Inst |->
                [userCallback |-> NoCallback, muxSelect |-> 0, value |-> 0]]
    /\ stk = <<>>
    /\ param = [PG |-> 0, MG |-> 0]
    /\ appRet = [f |-> "none", inst |-> 0, arg |-> NoArg, val |-> "none"]
    /\ calls = 0
    /\ lastGateOp = [i \in Inst |-> "none"]
    /\ lastReg = [i \in Inst |-> NoCallback]
    /\ stopped = [i \in Inst |-> [g \in Mux |-> FALSE]]
    /\ lastStore = [i \in Inst |-> [by |-> "none", val |-> 0, isr |-> 0]]

\* the flash configuration field is erased, and nothing has read it
Init ==
    /\ InitAdc
    /\ nv = [a \in NvAddrs |-> UINT8_MAX]
    /\ rd = NoRead

\* the flash configuration field holds some image
InitNv ==
    /\ InitAdc
    /\ nv \in {NvImage(n) : n \in 0 .. MaxSeed}
    /\ rd = NoRead

SpecNv == InitNv /\ [][NextNv]_vars

Driver ==
    \/ adc_init
    \/ adc_init_extend
    \/ adc_shutdown
    \/ adc_get_calibration_param
    \/ adc_set_calibration_param
    \/ adc_auto_calibration
    \/ adc_start_conversion
    \/ adc_stop_conversion
    \/ adc_is_conversion_completed
    \/ adc_get_conversion_value
    \/ adc_register_user_callback_isr

Converter ==
    \/ adc_isr_internal
    \/ \E i \in Inst : Interrupt(i)
    \/ \E i \in Inst, g \in Mux : ConversionComplete(i, g)

(* Every function of the API, with the converter, the interrupt and the   *)
(* callbacks.                                                             *)
Next ==
    \/ AppCall(AppCalls, MaxCalls)
    \/ Driver
    \/ Converter
    \/ UserCallback

Spec == Init /\ [][Next]_vars

(* Every function of the API, called with every kind of argument.  No     *)
(* callback runs within MaxArgCalls calls: that takes the clock, a        *)
(* callback registered and an interrupt-mode conversion started, so this  *)
(* specification has no step of a callback.                               *)
NextArgs ==
    \/ AppCall(ArgCalls, MaxArgCalls)
    \/ Driver
    \/ Converter

SpecArgs == Init /\ [][NextArgs]_vars

(* Conversions started and read, in polling and in interrupt mode.  No    *)
(* callback is registered.                                                *)
NextPoll ==
    \/ AppCall(PollCalls, MaxPollCalls)
    \/ adc_init
    \/ adc_start_conversion
    \/ adc_get_conversion_value
    \/ Converter

SpecPoll == Init /\ [][NextPoll]_vars

(* The conversion API with callbacks registered *)
NextIsr ==
    \/ AppCall(IsrCalls, MaxIsrCalls)
    \/ adc_init
    \/ adc_start_conversion
    \/ adc_stop_conversion
    \/ adc_get_conversion_value
    \/ adc_register_user_callback_isr
    \/ Converter
    \/ UserCallback

SpecIsr == Init /\ [][NextIsr]_vars

(* Clock, configuration and calibration.  No conversion is started, so    *)
(* the converter and the interrupt do nothing.                            *)
NextCal ==
    \/ AppCall(CalCalls, MaxCalCalls)
    \/ adc_init
    \/ adc_init_extend
    \/ adc_shutdown
    \/ adc_get_calibration_param
    \/ adc_set_calibration_param
    \/ adc_auto_calibration

SpecCal == Init /\ [][NextCal]_vars

(* Every function of the API on both instances.  No callback runs within *)
(* MaxIsoCalls calls, so this specification has no step of a callback.    *)
NextIso ==
    \/ AppCall(IsoCalls, MaxIsoCalls)
    \/ Driver
    \/ Converter

SpecIso == Init /\ [][NextIso]_vars

(* Polling reads under fairness: a function that can execute its next    *)
(* statement does, an interrupt that stays requested and enabled is       *)
(* taken, and a conversion in progress on a clocked instance completes.   *)
(* The application need not make another call.                            *)
NextLive ==
    \/ AppCall(LiveCalls, MaxLiveCalls)
    \/ adc_init
    \/ adc_start_conversion
    \/ adc_stop_conversion
    \/ adc_get_conversion_value
    \/ Converter

Fairness ==
    /\ WF_vars(Driver)
    /\ WF_vars(adc_isr_internal)
    /\ \A i \in Inst : WF_vars(Interrupt(i))
    /\ \A i \in Inst, g \in Mux : WF_vars(ConversionComplete(i, g))

SpecLive == Init /\ [][NextLive]_vars /\ Fairness

---------------------------------------------------------------------------
(* Properties *)

\* the top frame, one of f, returns in this step
Returns(f) == Is(f) /\ Len(stk') = Len(stk) - 1
\* the value it returns
Returned == IF Len(stk) = 1 THEN appRet'.val ELSE stk'[Len(stk) - 1].rv
\* the top frame takes a step
Steps(f) == Is(f) /\ stk' # stk /\ Len(stk') <= Len(stk)

Frames == {stk[k] : k \in 1 .. Len(stk)}

GetValue == "adc_get_conversion_value"

(* C1: a polling-mode adc_get_conversion_value (valid instance, non-NULL  *)
(* config) returns only after it has seen the conversion-complete flag of *)
(* the config's group, and returns the result register of that group as   *)
(* it read it after seeing the flag; that value is also what it stored    *)
(* in the context.                                                        *)
C1_PollingReturnsValueRead ==
    [][(Returns(GetValue) /\ Top.pc = 396 /\ ~Top.arg.isInterruptEnabled)
         => /\ Top.log = <<"adc_hal_is_conversion_completed",
                           "adc_hal_get_conversion_value">>
            /\ Returned = Top.tmp
            /\ ctx[Top.inst].value = Top.tmp]_vars

(* C2, as stated:  an interrupt-mode adc_get_conversion_value returns the *)
(* value stored by the most recent run of adc_isr_internal on the         *)
(* instance.                                                              *)
C2_InterruptModeReturnsIsrValue ==
    [][(Returns(GetValue) /\ Top.pc = 396 /\ Top.arg.isInterruptEnabled)
         => Returned = lastStore[Top.inst].isr]_vars

(* C2, amended: an interrupt-mode adc_get_conversion_value never waits    *)
(* and makes no HAL call; it returns the content of the instance's        *)
(* context value, which is what the most recent of the ISR runs and the   *)
(* polling-mode reads on that instance stored (0 if there was none).      *)
C2_InterruptModeReturnsBuffer ==
    /\ [](\A fr \in Frames :
            (fr.f = GetValue /\ fr.pc # 383 /\ fr.arg.isInterruptEnabled)
               => fr.pc \in {388, 396} /\ fr.log = <<>>)
    /\ [][(Returns(GetValue) /\ Top.pc = 396 /\ Top.arg.isInterruptEnabled)
            => /\ Returned = ctx[Top.inst].value
               /\ Returned = lastStore[Top.inst].val
               /\ adc' = adc]_vars

\* an interrupt-mode read has returned what a polling-mode read stored
C2_Witness ==
    /\ appRet.f = GetValue
    /\ ~appRet.arg.isNull
    /\ appRet.arg.isInterruptEnabled
    /\ lastStore[appRet.inst].by = "poll"
    /\ appRet.val = lastStore[appRet.inst].val
    /\ appRet.val # 0

(* C3: a run of adc_isr_internal first stores the result register of the  *)
(* context's muxSelect group in the context value, and then calls the     *)
(* callback once if one is registered and not at all if none is; the      *)
(* callback never runs before the value is stored, and an interrupt-mode  *)
(* adc_get_conversion_value it makes returns the value just stored.       *)
IsrRead == <<"adc_hal_get_conversion_value">>

C3_IsrFrames ==
    \A k \in 1 .. Len(stk) :
       stk[k].f = "adc_isr_internal" =>
          LET fr == stk[k]
              cb == ctx[fr.inst].userCallback
          IN /\ fr.pc = 85 => fr.log = <<>> /\ k = Len(stk)
             /\ fr.pc = 88 => fr.log = IsrRead /\ k = Len(stk)
             /\ fr.pc \in {88, 92} => ctx[fr.inst].value = fr.tmp
             /\ fr.pc = 92 =>
                  fr.log = IF cb = NoCallback THEN IsrRead
                                              ELSE Append(IsrRead, cb)
             /\ k < Len(stk) => stk[k + 1].f = cb /\ cb # NoCallback

C3_CallbackReadsNewValue ==
    (At("cbRead", 2) /\ Len(stk) > 1) => Top.rv = stk[Len(stk) - 1].tmp

C3_IsrStoresThenCalls ==
    /\ [](C3_IsrFrames /\ C3_CallbackReadsNewValue)
    /\ [][(Steps("adc_isr_internal") /\ Top.pc = 85)
            => ctx'[Top.inst].value =
                  adc[Top.inst].R[ctx[Top.inst].muxSelect]]_vars

\* the callback, called by the ISR, has read a conversion result
C3_Witness ==
    /\ At("cbRead", 2)
    /\ Top.rv \in Values
    /\ adc[Top.inst].R[0] # adc[Top.inst].R[1]

NullChecked ==
    {"adc_init", "adc_init_extend", "adc_start_conversion",
     "adc_stop_conversion", "adc_set_calibration_param"}

C5_NullArgumentRejected ==
    [][(Running /\ Top.f \in NullChecked /\ Top.arg.isNull
          /\ stk' # stk /\ Len(stk') <= Len(stk))
         => /\ Len(stk') = Len(stk) - 1
            /\ Returned = kStatus_ADC_InvalidArgument
            /\ UNCHANGED <<gate, nvic, adc, ctx, param>>]_vars

\* adc_stop_conversion(NULL) has returned and a conversion is still on
C5_Witness ==
    /\ appRet.f = "adc_stop_conversion"
    /\ appRet.arg.isNull
    /\ appRet.val = kStatus_ADC_InvalidArgument
    /\ \E g \in Mux : adc[appRet.inst].ch[g] # Disabled

(* C6: a successful adc_start_conversion disables the conversion of the   *)
(* config's group first and keeps it disabled until its last HAL call:    *)
(* disable, set the group mux, configure the interrupt (ADC and NVIC),    *)
(* enable with the config's channel and differential flag; it returns     *)
(* kStatus_ADC_Success.                                                   *)
StartLog(cfg) ==
    <<"adc_hal_disable", "adc_hal_set_group_mux">>
    \o (IF cfg.isInterruptEnabled
        THEN <<"interrupt_enable", "adc_hal_configure_interrupt">>
        ELSE <<"adc_hal_configure_interrupt", "interrupt_disable">>)
    \o <<"adc_hal_enable">>

\* the number of HAL calls adc_start_conversion has made before a line
StartDone(pc) ==
    CASE pc \in {305, 310} -> 0
      [] pc = 313 -> 1
      [] pc \in {316, 318, 319, 324} -> 2
      [] pc \in {320, 325} -> 3
      [] pc = 329 -> 4
      [] pc = 332 -> 5

C6_StartKeepsConversionDisabled ==
    /\ \A fr \in Frames :
          (fr.f = "adc_start_conversion" /\ ~fr.arg.isNull) =>
             LET cfg == fr.arg
                 r == adc[fr.inst]
             IN /\ fr.log = SubSeq(StartLog(cfg), 1, StartDone(fr.pc))
                /\ fr.pc \in {313, 316, 318, 319, 320, 324, 325, 329} =>
                      r.ch[cfg.muxSelect] = Disabled /\ ~r.busy[cfg.muxSelect]
                /\ fr.pc = 332 =>
                      /\ r.ch[cfg.muxSelect] = cfg.channelId
                      /\ r.diff[cfg.muxSelect] = cfg.isDifferentialEnabled
                      /\ r.aien[cfg.muxSelect] = cfg.isInterruptEnabled
                      /\ r.muxSel = cfg.muxSelect
                      /\ nvic[fr.inst] = cfg.isInterruptEnabled
    /\ (appRet.f = "adc_start_conversion" /\ ~appRet.arg.isNull)
          => appRet.val = kStatus_ADC_Success

\* a conversion is being started on a group that was converting
C6_Witness ==
    /\ At("adc_start_conversion", 329)
    /\ appRet.f = "adc_start_conversion"
    /\ ~appRet.arg.isNull
    /\ appRet.arg.muxSelect = Top.arg.muxSelect
    /\ gate[Top.inst]

(* C7: once adc_stop_conversion has returned kStatus_ADC_Success for a    *)
(* group, and until a later adc_start_conversion on it, the conversion    *)
(* of the group is disabled and so is its conversion-complete interrupt:  *)
(* the group requests no interrupt.                                       *)
C7_StopDisables ==
    /\ \A i \in Inst, g \in Mux :
          stopped[i][g] =>
             /\ adc[i].ch[g] = Disabled
             /\ ~adc[i].busy[g]
             /\ ~adc[i].aien[g]
    /\ \A fr \in Frames :
          (fr.f = "adc_stop_conversion" /\ fr.pc = 351) =>
             fr.log = <<"adc_hal_disable", "adc_hal_configure_interrupt">>
    /\ (appRet.f = "adc_stop_conversion" /\ ~appRet.arg.isNull)
          => appRet.val = kStatus_ADC_Success

\* a group started in interrupt mode has been stopped
C7_Witness ==
    \E i \in Inst, g \in Mux :
       stopped[i][g] /\ nvic[i] /\ gate[i] /\ ctx[i].muxSelect = g
          /\ stk = <<>>

(* C8: adc_init (non-NULL config) enables the clock gate before it writes *)
(* any register, then writes clock source, divider, reference voltage,    *)
(* resolution and continuous mode from the config and returns             *)
(* kStatus_ADC_Success; adc_shutdown only turns the gate off.  Between    *)
(* calls, the gate of an instance is on iff the last finished of its      *)
(* adc_init (also inside adc_auto_calibration) and adc_shutdown calls was *)
(* an adc_init.                                                           *)
InitLog ==
    <<"clock_manager_set_gate", "adc_hal_set_clock_source_mode",
      "adc_hal_set_clock_divider_mode", "adc_hal_set_reference_voltage_mode",
      "adc_hal_set_resolution_mode", "adc_hal_configure_continuous_conversion">>

\* the number of calls adc_init has made before a line
InitDone(pc) ==
    CASE pc \in {200, 206} -> 0
      [] pc = 209 -> 1
      [] pc = 210 -> 2
      [] pc = 213 -> 3
      [] pc = 216 -> 4
      [] pc = 219 -> 5
      [] pc = 221 -> 6

C8_ClockGate ==
    /\ stk = <<>> => \A i \in Inst : gate[i] <=> lastGateOp[i] = "adc_init"
    /\ \A fr \in Frames :
          /\ (fr.f = "adc_init" /\ ~fr.arg.isNull) =>
                /\ fr.log = SubSeq(InitLog, 1, InitDone(fr.pc))
                /\ fr.pc >= 209 => gate[fr.inst]
                /\ fr.pc = 221 =>
                      LET r == adc[fr.inst]
                      IN /\ r.clockSourceMode = fr.arg.clockSourceMode
                         /\ r.clockDividerMode = fr.arg.clockSourceDividerMode
                         /\ r.referenceVoltageMode = fr.arg.referenceVoltageMode
                         /\ r.resolutionMode = fr.arg.resolutionMode
                         /\ r.continuous = fr.arg.isContinuousEnabled
          /\ (fr.f = "adc_shutdown" /\ fr.pc = 294) =>
                fr.log = <<"clock_manager_set_gate">> /\ ~gate[fr.inst]
    /\ (appRet.f = "adc_init" /\ ~appRet.arg.isNull)
          => appRet.val = kStatus_ADC_Success

\* the gate is on again after a shutdown, by the adc_init inside
\* adc_auto_calibration
C8_Witness ==
    /\ stk = <<>>
    /\ appRet.f = "adc_auto_calibration"
    /\ gate[appRet.inst]
    /\ lastGateOp[appRet.inst] = "adc_init"
    /\ calls = MaxCalCalls

(* C9: adc_get_calibration_param returns kStatus_ADC_Failed when the      *)
(* hardware calibration fails, having written nothing to *paramPtr, not   *)
(* read the result register and not ended the calibration; otherwise it   *)
(* stores the hardware's PG and MG in *paramPtr, then reads result        *)
(* register 0, then ends the calibration, and returns kStatus_ADC_Success.*)
GetCalibration == "adc_get_calibration_param"

GetCalibrationLog ==
    <<"adc_hal_start_calibration", "adc_hal_get_calibration_PG",
      "adc_hal_get_calibration_MG", "adc_hal_get_conversion_value",
      "adc_hal_end_calibration">>

C9_Frames ==
    \A fr \in Frames :
       fr.f = GetCalibration =>
          LET r == adc[fr.inst]
          IN /\ fr.pc = 111 =>
                  /\ fr.log = <<"adc_hal_start_calibration">>
                  /\ r.calf /\ r.cal
             /\ fr.pc = 121 =>
                  /\ fr.log = GetCalibrationLog
                  /\ param.PG = r.calPG /\ param.MG = r.calMG
                  /\ ~r.calf /\ ~r.cal /\ ~r.coco[0]

C9_CalibrationParam ==
    /\ []C9_Frames
    /\ [][Steps(GetCalibration) =>
            /\ (Top.pc = 109 /\ adc'[Top.inst].calf) =>
                  stk'[Len(stk)].pc = 111 /\ param' = param
            /\ Top.pc = 111 =>
                  /\ Returned = kStatus_ADC_Failed
                  /\ param' = param /\ adc' = adc
            /\ Top.pc = 121 => Returned = kStatus_ADC_Success]_vars

\* adc_get_calibration_param has failed inside adc_auto_calibration
C9_Witness ==
    /\ At("adc_auto_calibration", 178)
    /\ Top.rv = kStatus_ADC_Failed
    /\ adc[Top.inst].cal
    /\ param = [PG |-> 0, MG |-> 0]

(* C10: whenever adc_auto_calibration returns, with either status, the    *)
(* hardware averaging of the instance is disabled.                        *)
C10_AverageRestoredOnReturn ==
    \A fr \in Frames :
       (fr.f = "adc_auto_calibration" /\ fr.pc \in {179, 187})
          => ~adc[fr.inst].hwAverage

(* C11: when adc_auto_calibration returns kStatus_ADC_Success, *paramPtr  *)
(* holds the PG and MG values the hardware calibration produced and they  *)
(* are the values written to the instance's PG and MG registers; the      *)
(* calibration was started with hardware averaging on at 32 samples; the  *)
(* instance is left with bus clock / 2, divider 8, 16-bit resolution,     *)
(* Vref and continuous conversion off.                                    *)
AutoCalibration == "adc_auto_calibration"

C11_Calibrated(i) ==
    LET r == adc[i]
    IN /\ param.PG = r.PG /\ param.MG = r.MG
       /\ param.PG = r.calPG /\ param.MG = r.calMG
       /\ param.PG \in CalVals /\ param.MG \in CalVals
       /\ r.clockSourceMode = "kAdcClockSourceBusClk2"
       /\ r.clockDividerMode = "kAdcClockDivider8"
       /\ r.resolutionMode = "kAdcSingleDiff16"
       /\ r.referenceVoltageMode = "kAdcVoltageVref"
       /\ ~r.continuous
       /\ gate[i]

C11_AutoCalibrationResult ==
    /\ [](\A fr \in Frames :
            (fr.f = AutoCalibration /\ fr.pc \in {185, 187})
               => C11_Calibrated(fr.inst))
    /\ []((stk = <<>> /\ appRet.f = AutoCalibration
             /\ appRet.val = kStatus_ADC_Success)
            => C11_Calibrated(appRet.inst))
    /\ [][(Steps(GetCalibration) /\ Top.pc = 109 /\ Len(stk) > 1
             /\ stk[Len(stk) - 1].f = AutoCalibration)
            => /\ adc[Top.inst].hwAverage
               /\ adc[Top.inst].hwAverageMode = "kAdcHwAverageCount32"]_vars

\* adc_auto_calibration has succeeded on an instance the application had
\* configured
C11_Witness ==
    /\ stk = <<>>
    /\ appRet.f = AutoCalibration
    /\ appRet.val = kStatus_ADC_Success
    /\ param.PG # param.MG
    /\ calls = MaxCalCalls

(* C12: with instance >= HW_ADC_INSTANCE_COUNT or a NULL channel config,  *)
(* adc_get_conversion_value returns 0 at once: it does not wait, makes no *)
(* HAL call and changes no context (nor any other state).                 *)
C12_InvalidValueArgs(fr) ==
    fr.f = GetValue /\ (fr.inst >= HW_ADC_INSTANCE_COUNT \/ fr.arg.isNull)

C12_InvalidReadReturnsZero ==
    /\ [](\A fr \in Frames :
            C12_InvalidValueArgs(fr) => fr.pc = 383 /\ fr.log = <<>>)
    /\ [][(Running /\ C12_InvalidValueArgs(Top) /\ stk' # stk
             /\ Len(stk') <= Len(stk))
            => /\ Len(stk') = Len(stk) - 1
               /\ Returned = 0
               /\ UNCHANGED <<gate, nvic, adc, ctx, param, Hist>>]_vars

\* a read of an instance that does not exist has returned, after
\* instance 0 was initialised
C12_Witness ==
    /\ appRet.f = GetValue
    /\ appRet.inst >= HW_ADC_INSTANCE_COUNT
    /\ appRet.val = 0
    /\ stk = <<>>
    /\ gate[0]

(* C13, as stated, its second part: a polling read of a group on which   *)
(* a conversion was started (and not stopped since), on an instance whose *)
(* clock gate is on, eventually returns.                                  *)
PollRead(i, g) ==
    /\ stk # <<>>
    /\ stk[1].f = GetValue
    /\ stk[1].inst = i
    /\ ~stk[1].arg.isNull
    /\ ~stk[1].arg.isInterruptEnabled
    /\ stk[1].arg.muxSelect = g

C13_StartedReadReturns ==
    \A i \in Tested, g \in Mux :
       (PollRead(i, g) /\ adc[i].ch[g] # Disabled /\ gate[i])
          ~> (stk = <<>>)

(* C13, amended: a polling read leaves its loop only on seeing the flag   *)
(* of its group set: there is no timeout.  It eventually returns if the   *)
(* flag is set, or a conversion of the group is in progress with the      *)
(* clock gate on, while the instance's NVIC interrupt is disabled (no ISR *)
(* takes the result).  It never returns while the group's conversion is   *)
(* disabled and its flag is clear.                                        *)
C13_Pending(i, g) ==
    /\ ~nvic[i]
    /\ adc[i].coco[g] \/ (adc[i].busy[g] /\ gate[i])

C13_Dead(i, g) ==
    /\ adc[i].ch[g] = Disabled
    /\ ~adc[i].coco[g]

C13_PollingTerminates ==
    /\ [][(Steps(GetValue) /\ Top.pc = 390)
            => adc[Top.inst].coco[Top.arg.muxSelect]]_vars
    /\ \A i \in Tested, g \in Mux :
          (PollRead(i, g) /\ C13_Pending(i, g)) ~> (stk = <<>>)
    /\ [][\A i \in Tested, g \in Mux :
            (PollRead(i, g) /\ stk[1].pc = 390 /\ C13_Dead(i, g))
               => /\ stk'[1] = stk[1]
                  /\ C13_Dead(i, g)']_vars

\* a polling read of a single conversion has returned its result
C13_Witness ==
    /\ stk = <<>>
    /\ appRet.f = GetValue
    /\ ~appRet.arg.isInterruptEnabled
    /\ appRet.val \in Values
    /\ ~adc[appRet.inst].continuous
    /\ ~adc[appRet.inst].busy[appRet.arg.muxSelect]
    /\ adc[appRet.inst].ch[appRet.arg.muxSelect] # Disabled

(* C14: the NV register map has 16 one-byte registers at the pairwise     *)
(* distinct, contiguous addresses REGS_NV_BASE + 0 .. REGS_NV_BASE + 15   *)
(* (base 0x400), in the order BACKKEY3, 2, 1, 0, 7, 6, 5, 4, FPROT3, 2,   *)
(* 1, 0, FSEC, FOPT, FEPROT, FDPROT; the offset of each member of the     *)
(* packed struct hw_nv_t is the member's address macro less the base, so  *)
(* that a register read through the struct and one through its address    *)
(* macro give the same byte.                                              *)
C14_Order ==
    <<"BACKKEY3", "BACKKEY2", "BACKKEY1", "BACKKEY0",
      "BACKKEY7", "BACKKEY6", "BACKKEY5", "BACKKEY4",
      "FPROT3", "FPROT2", "FPROT1", "FPROT0",
      "FSEC", "FOPT", "FEPROT", "FDPROT">>

C14_NvRegisterMap ==
    /\ REGS_NV_BASE = 4 * 16 * 16
    /\ Len(hw_nv_t) = 16
    /\ Cardinality(NvRegisters) = 16
    /\ \A R \in NvRegisters : SizeOf(R) = 1
    /\ {HW_NV_ADDR(R) : R \in NvRegisters} = REGS_NV_BASE .. REGS_NV_BASE + 15
    /\ \A R \in NvRegisters : OffsetOf(R) = HW_NV_ADDR(R) - REGS_NV_BASE
    /\ \A k \in 1 .. 16 :
          /\ C14_Order[k] \in NvRegisters
          /\ HW_NV_ADDR(C14_Order[k]) = REGS_NV_BASE + (k - 1)
          /\ OffsetOf(C14_Order[k]) = k - 1
    /\ rd.field = "U" =>
          \E k \in 1 .. 16 :
             /\ C14_Order[k] = rd.reg
             /\ rd.val = nv[REGS_NV_BASE + (k - 1)]

\* BACKKEY0 has been read through the struct: the fourth byte
C14_Witness ==
    /\ rd.how = "HW_NV"
    /\ rd.reg = "BACKKEY0"
    /\ rd.val = nv[REGS_NV_BASE + 3]
    /\ rd.val # nv[REGS_NV_BASE]

(* C19: for every bitfield F with layout constants, BM_F is               *)
(* ((2^BS_F) - 1) * 2^BP_F (mod 2^8), BP_F + BS_F <= 8, BS_F is the       *)
(* declared width of the struct member F and BP_F the sum of the widths   *)
(* of the members declared before it; the masks of two fields of one      *)
(* register are disjoint; the members of each register's struct           *)
(* (RESERVED0 of FOPT included) cover exactly 8 bits.  So a bitfield read *)
(* through the struct and one through the constants give the same value.  *)
C19_Constants(m) ==
    LET fields == hw_nv_bitfields(m.reg)
        k == MemberIndex(fields, m.field)
    IN /\ m.reg \in NvRegisters
       /\ m.field \in NvMembers(m.reg)
       /\ m.BM = ((2 ^ m.BS - 1) * 2 ^ m.BP) % 2 ^ 8
       /\ m.BP + m.BS <= 8
       /\ m.BS = fields[k].width
       /\ m.BP = WidthBefore(fields, k)

C19_NvBitfields ==
    /\ \A m \in NvFieldMacros : C19_Constants(m)
    /\ \A m1, m2 \in NvFieldMacros :
          (m1.reg = m2.reg /\ m1.field # m2.field)
             => BitAnd(m1.BM, m2.BM) = 0
    /\ \A R \in NvRegisters :
          LET fields == hw_nv_bitfields(R)
          IN /\ WidthBefore(fields, Len(fields) + 1) = 8
             /\ \A k \in DOMAIN fields :
                   /\ fields[k].width >= 1
                   /\ (\E m \in NvFieldMacros :
                          m.reg = R /\ m.field = fields[k].name)
                         <=> fields[k].name # "RESERVED0"
                   /\ \A j \in DOMAIN fields :
                         fields[j].name = fields[k].name => j = k
    /\ Cardinality(NvFieldMacros) = 20
    /\ (rd.how \in {"B", "MASK"} /\ rd.field # "RESERVED0") =>
          LET m == FieldMacros(rd.reg, rd.field)
              byte == nv[HW_NV_ADDR(rd.reg)]
          IN /\ rd.val = (byte \div 2 ^ m.BP) % 2 ^ m.BS
             /\ rd.val = BitAnd(byte, m.BM) \div 2 ^ m.BP

\* KEYEN of FSEC has been read through the struct as 2: bits 7 and 6 of
\* the byte are 1 and 0
C19_Witness ==
    /\ rd.how = "B"
    /\ rd.reg = "FSEC"
    /\ rd.field = "KEYEN"
    /\ rd.val = 2
    /\ nv[REGS_NV_BASE + 12] \div 64 = 2

(* C15, as stated, its conclusion: an ISR raised by a conversion that an  *)
(* interrupt-mode adc_start_conversion started reads the result register  *)
(* of that conversion's group: when the ISR reads, the group it reads is  *)
(* one that requests the interrupt.                                       *)
StartConversion == "adc_start_conversion"
Isr == "adc_isr_internal"

C15_StartFrames ==
    \A fr \in Frames :
       (fr.f = StartConversion /\ ~fr.arg.isNull
          /\ fr.arg.isInterruptEnabled) =>
          LET g == fr.arg.muxSelect
              r == adc[fr.inst]
          IN /\ fr.pc \in {319, 320, 329, 332} => ctx[fr.inst].muxSelect = g
             /\ fr.pc \in {305, 310, 313, 316, 318} =>
                   \A k \in DOMAIN fr.log :
                      fr.log[k] \notin {"interrupt_enable",
                                        "adc_hal_configure_interrupt",
                                        "adc_hal_enable"}
             /\ fr.pc \in {313, 316, 318, 319, 320, 329} =>
                   r.ch[g] = Disabled /\ ~r.busy[g] /\ ~r.coco[g]
             /\ fr.pc \in {329, 332} => nvic[fr.inst] /\ r.aien[g]

C16_StartFrames ==
    \A fr \in Frames :
       (fr.f = StartConversion /\ ~fr.arg.isNull
          /\ ~fr.arg.isInterruptEnabled) =>
          LET g == fr.arg.muxSelect
              r == adc[fr.inst]
          IN /\ fr.log = SubSeq(<<"adc_hal_disable", "adc_hal_set_group_mux",
                                  "adc_hal_configure_interrupt",
                                  "interrupt_disable", "adc_hal_enable">>,
                                1, Len(fr.log))
             /\ fr.pc \in {325, 329, 332} => ~r.aien[g]
             /\ fr.pc \in {329, 332} => ~nvic[fr.inst]
             /\ fr.pc \in {313, 316, 324, 325, 329} => r.ch[g] = Disabled
             /\ fr.pc = 332 =>
                   /\ r.ch[g] # Disabled
                   /\ \A h \in Frames : h.f # Isr

C16_NoIsrWhilePolling ==
    /\ [](C16_StartFrames
            /\ \A fr \in Frames : fr.f = Isr => nvic[fr.inst])
    /\ [][\A i \in Inst :
            /\ (nvic'[i] /\ ~nvic[i]) =>
                  /\ At(StartConversion, 319)
                  /\ Top.inst = i
                  /\ Top.arg.isInterruptEnabled
            /\ (~nvic[i] /\ ctx'[i].value # ctx[i].value) =>
                  /\ At(GetValue, 392)
                  /\ Top.inst = i
                  /\ ~Top.arg.isInterruptEnabled
                  /\ Len(stk) = 1]_vars

\* a polling read has changed the context value that an ISR had stored,
\* after a polling-mode start
C16_Witness ==
    /\ stk = <<>>
    /\ appRet.f = GetValue
    /\ ~appRet.arg.isNull
    /\ ~appRet.arg.isInterruptEnabled
    /\ ~nvic[appRet.inst]
    /\ lastStore[appRet.inst].by = "poll"
    /\ lastStore[appRet.inst].isr # 0
    /\ lastStore[appRet.inst].isr # lastStore[appRet.inst].val

(* C17: between calls, after any adc_start_conversion and                 *)
(* adc_stop_conversion calls on an instance, the context muxSelect is the *)
(* group of every ADC conversion-complete interrupt that is enabled; the  *)
(* value the ISR stores is the result of the group that raised the        *)
(* interrupt.                                                             *)
C17_MuxSelectIsInterruptGroup ==
    stk = <<>> =>
       \A i \in Inst, g \in Mux :
          adc[i].aien[g] => ctx[i].muxSelect = g

(* C18: a step of a driver function called on instance i, its ISR         *)
(* included, changes nothing of another valid instance j: not its context *)
(* (callback, muxSelect, value), not its clock gate, not its NVIC         *)
(* interrupt enable, not its ADC registers.                               *)
C18_InstanceIsolation ==
    [][(Running /\ stk' # stk) =>
          \A j \in Inst \ {Top.inst} :
             /\ ctx'[j] = ctx[j]
             /\ gate'[j] = gate[j]
             /\ nvic'[j] = nvic[j]
             /\ adc'[j] = adc[j]]_vars

\* instance 1 has been started in interrupt mode; instance 0, initialised
\* before, is as adc_init left it
C18_Witness ==
    /\ stk = <<>>
    /\ appRet.f = StartConversion
    /\ appRet.inst = 1
    /\ gate[0] /\ ~gate[1]
    /\ nvic[1] /\ ~nvic[0]
    /\ ctx[0] = [userCallback |-> NoCallback, muxSelect |-> 0, value |-> 0]
    /\ adc[1].aien[0]
    /\ adc[0] # adc[1]

====
